---------------------------- MODULE Spec2Model ----------------------------
(***************************************************************************)
(* Model of the streaming query engine of adp-mysql-js:                    *)
(*   - MySQLQuery           (src/src/mysql-util.ts 187-460)                *)
(*   - openRows / execStmt  (src/src/mysql-util.ts 462-534)                *)
(*   - pool helpers         (src/src/mysql-util.ts 8-124)                  *)
(*   - MySQLPool            (src/src/mysql-pool.ts)                        *)
(*   - MySQLTxn, MySQLConn  (src/unnamed/part_002)                         *)
(*   - runTransaction       (src/src/context.ts 60-101)                    *)
(* The mysql2 driver is the environment: a pool of wire connections, and   *)
(* one query handle that emits fields, result*, end or error.              *)
(***************************************************************************)
EXTENDS Integers, Sequences, FiniteSets, TLC

(* ------------------------------ constants ------------------------------ *)

\* const highWater = 100;
highWater == 100
\* const resume = 75;
resume == 75

\* Number of wire connections the mysql2 pool holds.
NumConns == 2
\* Largest result set of the lifecycle specification.
MaxRows == 2
\* Number of close() calls a consumer makes on one stream.
MaxClose == 2
\* Number of next() calls a consumer makes beyond the size of the result set.
ExtraNext == 2
\* Result-set size of the backpressure specification (two pause cycles).
FlowRows == 127
\* Number of statements the callback of runTransaction runs at most.
MaxStmts == 2
\* Number of calls a caller makes on one transaction.
MaxCalls == 3
\* Number of concurrent calls of getPoolConnection.
MaxGets == 2
\* Length of the longest parameter list of a statement.
MaxParams == 2

Conns == 1..NumConns
CloseIds == 1..MaxClose
\* Cancel invocations: 0 is the canceler's signal, i is close call i.
CancelIds == 0..MaxClose
GetIds == 1..MaxGets

\* con.threadId: the server-assigned id of a wire connection.
threadId(c) == 1000 + c

VARIABLES
    cfg,        \* the scenario: [kind, stmt, numRows, honorsPause, hasClr]
    pc,         \* position of the calling operation
    con,        \* the wire connection the query runs on (0: none yet)
    q,          \* the MySQLQuery object and the promise handles it settles
    closePc,    \* position of each close() call
    cancelPc,   \* position of each #cancel() invocation
    killTid,    \* the thread id each cancelQuery captured
    pool,       \* the mysql2 pool: free list and lease accounting
    wire,       \* the wire side of the query: driver position, pause, kill
    log,        \* history: KILL QUERY statements run, outcome of the call
    txn,        \* a transaction, its connection and the runTransaction call
    get,        \* the calls of getPoolConnection with a canceler
    db,         \* a MySQLPool object and the calls made on it
    iter,       \* a for await loop over the rows of a query
    flat        \* a parameter list and what the flattening loop made of it

vars ==
    <<cfg, pc, con, q, closePc, cancelPc, killTid, pool, wire, log, txn,
      get, db, iter, flat>>

\* The state of the callers that are not part of a statement or of a
\* transaction.
auxVars == <<get, db, iter, flat>>

keepOpen == cfg.kind = "conn"

(* ------------------------------ the pool -------------------------------- *)

\* pool.getConnection delivers the first connection of the free list.
PoolFirst(p) == CHOOSE c \in Conns :
    p.free[c] > 0 /\ \A d \in Conns : p.free[d] > 0 => c <= d

PoolTake(p, c) ==
    [p EXCEPT !.free[c] = @ - 1, !.acquired[c] = @ + 1]

\* con.release(): mysql2 pushes the connection onto the free list, whether
\* or not it is already there.
PoolRelease(p, c) ==
    [p EXCEPT !.free[c] = @ + 1, !.released[c] = @ + 1]

\* closeConnection(con, pool, kill): destroy, release or end.
closeConnection(p, c, hasPool, kill) ==
    IF kill THEN [p EXCEPT !.destroyed = @ \cup {c}]
    ELSE IF hasPool THEN PoolRelease(p, c)
    ELSE [p EXCEPT !.ended = @ \cup {c}]

(* --------------------------- promise handles ---------------------------- *)

\* The Row view makeRow builds over a raw row packet.
makeRow(src) == <<"Row", src>>
NoRow == <<>>

\* A next() promise settles with r: "true", "false" or "reject".  The
\* counters record what the consumer has seen so far.
settleNext(s, r) ==
    [s EXCEPT !.lastNext = r,
              !.trues = IF r = "true" THEN @ + 1 ELSE @,
              !.falses = IF r = "false" THEN @ + 1 ELSE @,
              !.rejects = IF r = "reject" THEN @ + 1 ELSE @,
              !.trueAfterFalse = @ \/ (r = "true" /\ s.falses > 0),
              !.misordered = @ \/ (r = "true" /\ s.row # makeRow(s.trues + 1))]

\* pClose.resolve() / pClose.reject(err) on close handle h.
settleClose(s, h, r) == [s EXCEPT !.hState[h] = r]

(* ------------------------------ MySQLQuery ------------------------------ *)

\* The object after its constructor and the rows.ready() call openRows and
\* execStmt make right after it.
NewQuery ==
    [buf |-> <<>>, row |-> NoRow, err |-> "none", columns |-> FALSE,
     ready |-> FALSE, done |-> FALSE, paused |-> FALSE, isExec |-> FALSE,
     result |-> FALSE, canceling |-> FALSE, cancelWaiting |-> FALSE,
     waitNext |-> FALSE, waitClose |-> 0, waitReady |-> TRUE,
     readyVal |-> "pending",
     lastNext |-> "none", nextCalls |-> 0, trues |-> 0, falses |-> 0,
     rejects |-> 0, trueAfterFalse |-> FALSE, misordered |-> FALSE,
     hState |-> [h \in CloseIds |-> "none"],
     completes |-> 0, invalidState |-> FALSE,
     conPaused |-> FALSE, pauseCalls |-> 0, resumeCalls |-> 0,
     toggleAt |-> 0]

\* #resolveNext(ok)
resolveNext(s, ok) ==
    settleNext([s EXCEPT !.waitNext = FALSE], IF ok THEN "true" ELSE "false")

\* #resolveReady(err)
resolveReady(s, e) ==
    IF s.waitReady
    THEN [s EXCEPT !.ready = TRUE, !.waitReady = FALSE, !.readyVal = e]
    ELSE [s EXCEPT !.ready = TRUE]

\* #end()
end(s) ==
    LET s1 == [s EXCEPT !.done = TRUE] IN
    IF s1.waitNext THEN resolveNext(s1, FALSE)
    ELSE LET s2 == IF s1.waitClose # 0
                   THEN settleClose([s1 EXCEPT !.waitClose = 0],
                                    s1.waitClose, "resolved")
                   ELSE s1
         IN [s2 EXCEPT !.completes = @ + 1]

\* #error(err) that leaves a pending close() alone.
error_keepsClose(s, code) ==
    LET s1 == [s EXCEPT !.err = code]
        s2 == IF ~s1.ready THEN resolveReady(s1, code) ELSE s1
    IN  IF code = "ER_QUERY_INTERRUPTED" /\ s2.canceling THEN end(s2)
        ELSE IF s2.waitNext
             THEN settleNext([s2 EXCEPT !.waitNext = FALSE], "reject")
             ELSE s2

\* #error(err) without the test for an expected interrupt.
error_noInterruptTest(s, code) ==
    LET s1 == [s EXCEPT !.err = code]
        s2 == IF ~s1.ready THEN resolveReady(s1, code) ELSE s1
        s3 == IF s2.waitNext
              THEN settleNext([s2 EXCEPT !.waitNext = FALSE], "reject")
              ELSE s2
    IN IF s3.waitClose # 0
       THEN settleClose([s3 EXCEPT !.waitClose = 0], s3.waitClose, "rejected")
       ELSE s3

\* #error(err)
error(s, code) ==
    LET s1 == [s EXCEPT !.err = code]
        s2 == IF ~s1.ready THEN resolveReady(s1, code) ELSE s1
    IN  IF code = "ER_QUERY_INTERRUPTED" /\ s2.canceling THEN end(s2)
        ELSE LET s3 == IF s2.waitNext
                       THEN settleNext([s2 EXCEPT !.waitNext = FALSE], "reject")
                       ELSE s2
             IN IF s3.waitClose # 0
                THEN settleClose([s3 EXCEPT !.waitClose = 0],
                                 s3.waitClose, "rejected")
                ELSE s3

\* #onFields(fields); isNull: the fields of an exec statement
onFields(s, isNull) ==
    IF isNull THEN [s EXCEPT !.isExec = TRUE]
    ELSE LET s1 == [s EXCEPT !.columns = TRUE]
         IN IF ~s1.ready THEN resolveReady(s1, "null") ELSE s1

\* #pushRow without the test of #canceling.
pushRow_noCancelTest(s, r) ==
    IF s.isExec THEN
        LET s1 == [s EXCEPT !.result = TRUE]
            s2 == IF ~s1.ready THEN resolveReady(s1, "null") ELSE s1
        IN IF s2.waitNext THEN resolveNext(s2, FALSE) ELSE s2
    ELSE IF s.waitNext THEN
        IF Len(s.buf) # 0 THEN [s EXCEPT !.invalidState = TRUE]
        ELSE resolveNext([s EXCEPT !.row = makeRow(r)], TRUE)
    ELSE
        LET s1 == [s EXCEPT !.buf = Append(@, r)]
        IN IF Len(s1.buf) >= highWater /\ ~s1.paused
           THEN [s1 EXCEPT !.paused = TRUE, !.conPaused = TRUE,
                           !.pauseCalls = @ + 1,
                           !.toggleAt = s1.trues]
           ELSE s1

\* #pushRow that never requests a pause.
pushRow_noPause(s, r) ==
    IF s.canceling THEN s
    ELSE IF s.isExec THEN
        LET s1 == [s EXCEPT !.result = TRUE]
            s2 == IF ~s1.ready THEN resolveReady(s1, "null") ELSE s1
        IN IF s2.waitNext THEN resolveNext(s2, FALSE) ELSE s2
    ELSE IF s.waitNext THEN
        IF Len(s.buf) # 0 THEN [s EXCEPT !.invalidState = TRUE]
        ELSE resolveNext([s EXCEPT !.row = makeRow(r)], TRUE)
    ELSE [s EXCEPT !.buf = Append(@, r)]

\* #pushRow(row)
pushRow(s, r) ==
    IF s.canceling THEN s
    ELSE IF s.isExec THEN
        LET s1 == [s EXCEPT !.result = TRUE]
            s2 == IF ~s1.ready THEN resolveReady(s1, "null") ELSE s1
        IN IF s2.waitNext THEN resolveNext(s2, FALSE) ELSE s2
    ELSE IF s.waitNext THEN
        IF Len(s.buf) # 0 THEN [s EXCEPT !.invalidState = TRUE]
        ELSE resolveNext([s EXCEPT !.row = makeRow(r)], TRUE)
    ELSE
        LET s1 == [s EXCEPT !.buf = Append(@, r)]
        IN IF Len(s1.buf) >= highWater /\ ~s1.paused
           THEN [s1 EXCEPT !.paused = TRUE, !.conPaused = TRUE,
                           !.pauseCalls = @ + 1,
                           !.toggleAt = s1.trues]
           ELSE s1

\* next() that serves the buffer before it tests #err.
next_bufferFirst(s) ==
    LET c == [s EXCEPT !.nextCalls = @ + 1] IN
    IF Len(c.buf) # 0 THEN
        LET s1 == [c EXCEPT !.row = makeRow(Head(c.buf)), !.buf = Tail(@)]
            s2 == IF s1.paused /\ Len(s1.buf) <= resume
                  THEN [s1 EXCEPT !.paused = FALSE, !.conPaused = FALSE,
                                  !.resumeCalls = @ + 1,
                                  !.toggleAt = s1.trues + 1]
                  ELSE s1
        IN settleNext(s2, "true")
    ELSE IF c.err # "none" THEN settleNext(c, "reject")
    ELSE IF c.done THEN settleNext(c, "false")
    ELSE IF c.isExec THEN settleNext(c, "false")
    ELSE [c EXCEPT !.waitNext = TRUE, !.lastNext = "pending"]

\* next() that tests #done before the buffer.
next_doneFirst(s) ==
    LET c == [s EXCEPT !.nextCalls = @ + 1] IN
    IF c.err # "none" THEN settleNext(c, "reject")
    ELSE IF c.done THEN settleNext(c, "false")
    ELSE IF Len(c.buf) # 0 THEN
        LET s1 == [c EXCEPT !.row = makeRow(Head(c.buf)), !.buf = Tail(@)]
            s2 == IF s1.paused /\ Len(s1.buf) <= resume
                  THEN [s1 EXCEPT !.paused = FALSE, !.conPaused = FALSE,
                                  !.resumeCalls = @ + 1,
                                  !.toggleAt = s1.trues + 1]
                  ELSE s1
        IN settleNext(s2, "true")
    ELSE IF c.isExec THEN settleNext(c, "false")
    ELSE [c EXCEPT !.waitNext = TRUE, !.lastNext = "pending"]

\* next() that resumes only below the low-water mark.
next_resumeBelow(s) ==
    LET c == [s EXCEPT !.nextCalls = @ + 1] IN
    IF c.err # "none" THEN settleNext(c, "reject")
    ELSE IF Len(c.buf) # 0 THEN
        LET s1 == [c EXCEPT !.row = makeRow(Head(c.buf)), !.buf = Tail(@)]
            s2 == IF s1.paused /\ Len(s1.buf) < resume
                  THEN [s1 EXCEPT !.paused = FALSE, !.conPaused = FALSE,
                                  !.resumeCalls = @ + 1,
                                  !.toggleAt = s1.trues + 1]
                  ELSE s1
        IN settleNext(s2, "true")
    ELSE IF c.done THEN settleNext(c, "false")
    ELSE IF c.isExec THEN settleNext(c, "false")
    ELSE [c EXCEPT !.waitNext = TRUE, !.lastNext = "pending"]

\* next() that loads the head of the buffer and leaves it in the buffer.
next_keepsHead(s) ==
    LET c == [s EXCEPT !.nextCalls = @ + 1] IN
    IF c.err # "none" THEN settleNext(c, "reject")
    ELSE IF Len(c.buf) # 0 THEN
        settleNext([c EXCEPT !.row = makeRow(Head(c.buf))], "true")
    ELSE IF c.done THEN settleNext(c, "false")
    ELSE IF c.isExec THEN settleNext(c, "false")
    ELSE [c EXCEPT !.waitNext = TRUE, !.lastNext = "pending"]

\* next() that waits for the driver whenever the query is not done, rows
\* in the buffer or not.
next_waitsFirst(s) ==
    LET c == [s EXCEPT !.nextCalls = @ + 1] IN
    IF c.err # "none" THEN settleNext(c, "reject")
    ELSE IF ~c.done /\ ~c.isExec
    THEN [c EXCEPT !.waitNext = TRUE, !.lastNext = "pending"]
    ELSE IF Len(c.buf) # 0 THEN
        settleNext([c EXCEPT !.row = makeRow(Head(c.buf)), !.buf = Tail(@)],
                   "true")
    ELSE settleNext(c, "false")

\* next() with a single threshold: it resumes as soon as the buffer is
\* below the high-water mark.
next_singleThreshold(s) ==
    LET c == [s EXCEPT !.nextCalls = @ + 1] IN
    IF c.err # "none" THEN settleNext(c, "reject")
    ELSE IF Len(c.buf) # 0 THEN
        LET s1 == [c EXCEPT !.row = makeRow(Head(c.buf)), !.buf = Tail(@)]
            s2 == IF s1.paused /\ Len(s1.buf) < highWater
                  THEN [s1 EXCEPT !.paused = FALSE, !.conPaused = FALSE,
                                  !.resumeCalls = @ + 1,
                                  !.toggleAt = s1.trues + 1]
                  ELSE s1
        IN settleNext(s2, "true")
    ELSE IF c.done THEN settleNext(c, "false")
    ELSE IF c.isExec THEN settleNext(c, "false")
    ELSE [c EXCEPT !.waitNext = TRUE, !.lastNext = "pending"]

\* next()
next(s) ==
    LET c == [s EXCEPT !.nextCalls = @ + 1] IN
    IF c.err # "none" THEN settleNext(c, "reject")
    ELSE IF Len(c.buf) # 0 THEN
        LET s1 == [c EXCEPT !.row = makeRow(Head(c.buf)), !.buf = Tail(@)]
            s2 == IF s1.paused /\ Len(s1.buf) <= resume
                  THEN [s1 EXCEPT !.paused = FALSE, !.conPaused = FALSE,
                                  !.resumeCalls = @ + 1,
                                  !.toggleAt = s1.trues + 1]
                  ELSE s1
        IN settleNext(s2, "true")
    ELSE IF c.done THEN settleNext(c, "false")
    ELSE IF c.isExec THEN settleNext(c, "false")
    ELSE [c EXCEPT !.waitNext = TRUE, !.lastNext = "pending"]

\* What a getter does: it returns a value or throws one.  The thrown value
\* "none" is null.
Returns(v) == [kind |-> "return", val |-> v]
Throws(v) == [kind |-> "throw", val |-> v]

\* get columns()
columns(s) ==
    IF ~s.columns
    THEN IF s.ready THEN Throws(s.err) ELSE Throws("Error: not ready yet")
    ELSE Returns("fieldNames")

\* get columnTypes()
columnTypes(s) ==
    IF ~s.columns
    THEN IF s.ready THEN Throws(s.err) ELSE Throws("Error: not ready yet")
    ELSE Returns("columns")

\* result()
result(s) ==
    IF ~s.result
    THEN IF s.ready
         THEN IF ~s.isExec THEN Throws("Error: returned rows")
              ELSE Throws(s.err)
         ELSE Throws("Error: not ready yet")
    ELSE Returns("MySQLResult")

(* ------------------------ cancel and close calls ------------------------ *)

nClose == Cardinality({i \in CloseIds : closePc[i] # "none"})

\* #cancel() that closes the connection whatever #keepOpen says.
cancel_alwaysClose(j, s) ==
    /\ q' = [s EXCEPT !.canceling = TRUE,
                        !.cancelWaiting = @ \/ s.waitNext]
    /\ pool' = closeConnection(pool, con, TRUE, FALSE)
    /\ cancelPc' = [cancelPc EXCEPT ![j] = "done"]
    /\ UNCHANGED killTid

\* #cancel(), invocation j, on the object in state s.  With keepOpen=false
\* closeConnection(con, pool) has acted when it returns; with keepOpen=true
\* cancelQuery has read con.threadId and waits for a pooled connection.
\* cancelWaiting records that a cancel found a next() call pending.
cancel(j, s) ==
    /\ q' = [s EXCEPT !.canceling = TRUE,
                        !.cancelWaiting = @ \/ s.waitNext]
    /\ IF ~keepOpen
       THEN /\ pool' = closeConnection(pool, con, TRUE, FALSE)
            /\ cancelPc' = [cancelPc EXCEPT ![j] = "done"]
            /\ UNCHANGED killTid
       ELSE /\ cancelPc' = [cancelPc EXCEPT ![j] = "acquire"]
            /\ killTid' = [killTid EXCEPT ![j] = threadId(con)]
            /\ UNCHANGED pool

\* close(), call i, up to its first await.
close(i) ==
    IF q.done
    THEN /\ closePc' = [closePc EXCEPT ![i] = "resolved"]
         /\ UNCHANGED <<q, pool, cancelPc, killTid>>
    ELSE /\ closePc' = [closePc EXCEPT ![i] = "awaitCancel"]
         /\ cancel(i, [q EXCEPT !.waitClose = i, !.hState[i] = "pending"])

\* close(), call i, that returns after `await this.#cancel()` without
\* waiting for its handle.
closeResume_noWait(i) ==
    /\ closePc[i] = "awaitCancel"
    /\ cancelPc[i] = "done"
    /\ q' = IF q.paused
            THEN [q EXCEPT !.conPaused = FALSE, !.resumeCalls = @ + 1,
                           !.toggleAt = q.trues]
            ELSE q
    /\ closePc' = [closePc EXCEPT ![i] = "resolved"]
    /\ UNCHANGED <<txn, auxVars>>
    /\ UNCHANGED <<cfg, pc, con, cancelPc, killTid, pool, wire, log>>

\* close(), call i, from the end of `await this.#cancel()` to its next await.
closeResume(i) ==
    /\ closePc[i] = "awaitCancel"
    /\ cancelPc[i] = "done"
    /\ LET s1 == IF q.paused
                 THEN [q EXCEPT !.conPaused = FALSE, !.resumeCalls = @ + 1,
                                !.toggleAt = q.trues]
                 ELSE q
       IN IF s1.done
          THEN /\ q' = [s1 EXCEPT !.waitClose = 0]
               /\ closePc' = [closePc EXCEPT ![i] = "resolved"]
          ELSE /\ q' = s1
               /\ closePc' = [closePc EXCEPT ![i] = "awaitHandle"]
    /\ UNCHANGED <<txn, auxVars>>
    /\ UNCHANGED <<cfg, pc, con, cancelPc, killTid, pool, wire, log>>

\* close(), call i: `await pClose.promise` returns or throws.
closeSettle(i) ==
    /\ closePc[i] = "awaitHandle"
    /\ q.hState[i] \in {"resolved", "rejected"}
    /\ closePc' = [closePc EXCEPT ![i] = q.hState[i]]
    /\ UNCHANGED <<txn, auxVars>>
    /\ UNCHANGED <<cfg, pc, con, q, cancelPc, killTid, pool, wire, log>>

(* ------------------------------ cancelQuery ----------------------------- *)

\* The server is still executing the statement: it can fail or be
\* interrupted.  An exec statement is over with its one OK packet, which the
\* driver hands over as fields(undefined) and result in one go.
Running ==
    \/ wire.drv = "fields"
    \/ wire.drv = "rows" /\ cfg.stmt = "rows"

\* KILL QUERY that carries the thread id of the sideband connection (the
\* `con` of the callback shadows the in-flight `con`).
killQuery_ownThread(j) ==
    /\ cancelPc[j] = "acquire"
    /\ \E k \in Conns : pool.free[k] > 0
    /\ LET k == PoolFirst(pool) IN
          /\ pool' = PoolRelease(PoolTake(pool, k), k)
          /\ log' = [log EXCEPT !.kills = @ \cup
                          {[via |-> k, thread |-> threadId(k)]}]
    /\ cancelPc' = [cancelPc EXCEPT ![j] = "done"]
    /\ UNCHANGED <<txn, auxVars>>
    /\ UNCHANGED <<cfg, pc, con, q, closePc, killTid, wire>>

\* cancelQuery from the delivery of the sideband connection k by
\* usePoolConnection to its release: KILL QUERY <threadId> is executed on k
\* (a failure is logged and swallowed), then k is released.  A query still
\* running on that thread is interrupted, unless the server had already
\* finished it.
killQuery(j) ==
    /\ cancelPc[j] = "acquire"
    /\ \E k \in Conns : pool.free[k] > 0
    /\ LET k == PoolFirst(pool) IN
          /\ pool' = PoolRelease(PoolTake(pool, k), k)
          /\ log' = [log EXCEPT !.kills = @ \cup
                          {[via |-> k, thread |-> killTid[j]]}]
    /\ \E hit \in IF Running /\ killTid[j] = threadId(con)
                    THEN BOOLEAN ELSE {FALSE} :
          wire' = [wire EXCEPT !.killed = @ \/ hit]
    /\ cancelPc' = [cancelPc EXCEPT ![j] = "done"]
    /\ UNCHANGED <<txn, auxVars>>
    /\ UNCHANGED <<cfg, pc, con, q, closePc, killTid>>

\* The canceler of the context fires: the handler the constructor
\* registered runs #cancel().
cancelSignal ==
    /\ cfg.hasClr
    /\ pc \notin {"start", "failed"}
    /\ cancelPc[0] = "none"
    /\ cancel(0, q)
    /\ UNCHANGED <<txn, auxVars>>
    /\ UNCHANGED <<cfg, pc, con, closePc, wire, log>>

(* ------------------------- the driver's events -------------------------- *)

\* The query handle emits while the query runs; a driver that honors
\* con.pause() emits nothing between pause() and resume().
Emitting == cfg.honorsPause => ~q.conPaused

\* Number of result events of the statement: its rows, or one exec packet.
Total == IF cfg.stmt = "exec" THEN 1 ELSE cfg.numRows

\* qry.on('fields', ...)
drvFields ==
    /\ wire.drv = "fields"
    /\ ~wire.killed
    /\ Emitting
    /\ q' = onFields(q, cfg.stmt = "exec")
    /\ wire' = [wire EXCEPT !.drv = "rows"]
    /\ UNCHANGED <<txn, auxVars>>
    /\ UNCHANGED <<cfg, pc, con, closePc, cancelPc, killTid, pool, log>>

\* qry.on('result', ...)
drvResult ==
    /\ wire.drv = "rows"
    /\ ~wire.killed
    /\ Emitting
    /\ wire.sent < Total
    /\ q' = pushRow(q, wire.sent + 1)
    /\ wire' = [wire EXCEPT !.sent = @ + 1]
    /\ UNCHANGED <<txn, auxVars>>
    /\ UNCHANGED <<cfg, pc, con, closePc, cancelPc, killTid, pool, log>>

\* qry.on('end', ...) after the last result
drvEnd ==
    /\ wire.drv = "rows"
    /\ ~wire.killed
    /\ Emitting
    /\ wire.sent = Total
    /\ q' = end(q)
    /\ wire' = [wire EXCEPT !.drv = "ended"]
    /\ UNCHANGED <<txn, auxVars>>
    /\ UNCHANGED <<cfg, pc, con, closePc, cancelPc, killTid, pool, log>>

\* qry.on('error', ...): the interrupt of a KILL QUERY, or any other failure
drvError ==
    /\ Running
    /\ Emitting
    /\ q' = error(q, IF wire.killed THEN "ER_QUERY_INTERRUPTED" ELSE "ER_FAIL")
    /\ wire' = [wire EXCEPT !.drv = "errored"]
    /\ UNCHANGED <<txn, auxVars>>
    /\ UNCHANGED <<cfg, pc, con, closePc, cancelPc, killTid, pool, log>>

\* qry.on('end', ...) after an error: mysql2 emits 'end' when a command
\* finishes, also one that failed.
drvEndAfterError ==
    /\ wire.drv = "errored"
    /\ Emitting
    /\ q' = end(q)
    /\ wire' = [wire EXCEPT !.drv = "ended"]
    /\ UNCHANGED <<txn, auxVars>>
    /\ UNCHANGED <<cfg, pc, con, closePc, cancelPc, killTid, pool, log>>

(* --------------------------- the calling code --------------------------- *)

\* MySQLPool.queryRow / query / exec: getPoolConnection delivers, then
\* openRows or execStmt issues the query, builds the MySQLQuery and awaits
\* rows.ready().
acquire ==
    /\ pc = "start"
    /\ cfg.kind # "conn"
    /\ \E c \in Conns : pool.free[c] > 0
    /\ pool' = PoolTake(pool, PoolFirst(pool))
    /\ con' = PoolFirst(pool)
    /\ q' = NewQuery
    /\ wire' = [wire EXCEPT !.drv = "fields"]
    /\ pc' = "opening"
    /\ UNCHANGED <<txn, auxVars>>
    /\ UNCHANGED <<cfg, closePc, cancelPc, killTid, log>>

\* getPoolConnection rejects: nothing was leased.
acquireFail ==
    /\ pc = "start"
    /\ cfg.kind # "conn"
    /\ pc' = "failed"
    /\ UNCHANGED <<txn, auxVars>>
    /\ UNCHANGED <<cfg, con, q, closePc, cancelPc, killTid, pool, wire, log>>

\* A statement on a connection the caller holds: openRows with
\* keepOpen=true.
openOnConn ==
    /\ pc = "start"
    /\ cfg.kind = "conn"
    /\ q' = NewQuery
    /\ wire' = [wire EXCEPT !.drv = "fields"]
    /\ pc' = "opening"
    /\ UNCHANGED <<txn, auxVars>>
    /\ UNCHANGED <<cfg, con, closePc, cancelPc, killTid, pool, log>>

\* A caller that holds a connection issues the query and builds the
\* MySQLQuery itself, and uses it without awaiting ready().
construct ==
    /\ pc = "start"
    /\ cfg.kind = "conn"
    /\ q' = NewQuery
    /\ wire' = [wire EXCEPT !.drv = "fields"]
    /\ pc' = "streaming"
    /\ UNCHANGED <<txn, auxVars>>
    /\ UNCHANGED <<cfg, con, closePc, cancelPc, killTid, pool, log>>

\* openRows / execStmt after `await rows.ready()`, to the caller's next
\* await.
opened ==
    /\ pc = "opening"
    /\ q.readyVal # "pending"
    /\ IF q.readyVal # "null"
       THEN /\ close(nClose + 1)
            /\ pc' = "openClose"
            /\ UNCHANGED log
       ELSE /\ UNCHANGED <<closePc, cancelPc, killTid, pool>>
            /\ CASE cfg.kind = "queryRow" ->
                      /\ q' = next(q)
                      /\ pc' = "qrNext"
                      /\ UNCHANGED log
                 [] cfg.kind = "exec" ->
                      /\ pc' = "release"
                      /\ log' = [log EXCEPT !.failed = ~q.result]
                      /\ UNCHANGED q
                 [] OTHER ->
                      /\ pc' = "streaming"
                      /\ UNCHANGED <<q, log>>
    /\ UNCHANGED <<txn, auxVars>>
    /\ UNCHANGED <<cfg, con, wire>>

\* MySQLPool.queryRow: rows.next() settled; finally { await rows.close() }
qrNextDone ==
    /\ pc = "qrNext"
    /\ q.lastNext # "pending"
    /\ close(nClose + 1)
    /\ pc' = "qrClose"
    /\ UNCHANGED <<txn, auxVars>>
    /\ UNCHANGED <<cfg, con, wire, log>>

\* `await rows.close()` of openRows, execStmt or queryRow settled.
closeDone ==
    /\ pc \in {"openClose", "qrClose"}
    /\ closePc[nClose] \in {"resolved", "rejected"}
    /\ pc' = IF cfg.kind \in {"queryRow", "exec"} THEN "release" ELSE "failed"
    /\ log' = [log EXCEPT !.failed = @ \/ pc = "openClose"
                                       \/ closePc[nClose] = "rejected"
                                       \/ q.lastNext = "reject"]
    /\ UNCHANGED <<txn, auxVars>>
    /\ UNCHANGED <<cfg, con, q, closePc, cancelPc, killTid, pool, wire>>

\* usePoolConnection: finally { con.release() }
release ==
    /\ pc = "release"
    /\ pool' = PoolRelease(pool, con)
    /\ pc' = "settled"
    /\ UNCHANGED <<txn, auxVars>>
    /\ UNCHANGED <<cfg, con, q, closePc, cancelPc, killTid, wire, log>>

\* The consumer of a returned stream calls next(), one call at a time.
consumerNext ==
    /\ pc = "streaming"
    /\ q.lastNext # "pending"
    /\ q.nextCalls < cfg.numRows + ExtraNext
    /\ q' = next(q)
    /\ UNCHANGED <<txn, auxVars>>
    /\ UNCHANGED <<cfg, pc, con, closePc, cancelPc, killTid, pool, wire, log>>

\* The consumer of a returned stream calls close().
consumerClose ==
    /\ pc = "streaming"
    /\ nClose < MaxClose
    /\ close(nClose + 1)
    /\ log' = [log EXCEPT !.closedWaiting = @ \/ (q.waitNext /\ ~q.done)]
    /\ UNCHANGED <<txn, auxVars>>
    /\ UNCHANGED <<cfg, pc, con, wire>>

(* ----------------------------- transactions ---------------------------- *)

\* IsolationLevel values MySQLTxn.begin maps to a statement.
Levels ==
    {"default", "repeatableRead", "readCommitted", "readUncommitted",
     "serializable"}

\* A value of the IsolationLevel enumeration that begin does not map.
OtherLevel == "snapshot"

\* TxnOptions as passed by a caller; given = FALSE is `undefined`.
Opts ==
    {[given |-> FALSE, isolationLevel |-> "default", readOnly |-> FALSE]}
    \cup [given : {TRUE}, isolationLevel : Levels \cup {OtherLevel},
          readOnly : BOOLEAN]

\* A MySQLTxn over a MySQLConn, neither begun nor closed, with the call of
\* runTransaction that may use it:
\*   keepOpen, ready, closed   MySQLTxn.#keepOpen, #ready, #closed
\*   conClosed, released       MySQLConn.#closed, calls of con.release()
\*   sql                       the statements sent on the connection
\*   api, opts                 the storage API on the context, the options
\*   rt, fnArg, fnStmts        position of runTransaction, what the callback
\*                             was given, statements the callback has run
\*   fnResult, failure, thrown error of the callback, first failure,
\*                             error runTransaction rejected with
\*   calls                     beginTxn / commit / rollback calls made by
\*                             runTransaction
\*   use, ops, closes, last    for a caller that uses the transaction
\*                             itself: "new" before begin is called, "held"
\*                             after it, "none" when beginTxn threw and the
\*                             caller got no object; calls made on the
\*                             transaction; calls of MySQLConn.close() by
\*                             the owner of the connection; the last call,
\*                             the error it ended with and whether that was
\*                             thrown
NewTxn(api, keep, opts) ==
    [api |-> api, opts |-> opts, keepOpen |-> keep,
     ready |-> FALSE, closed |-> FALSE, conClosed |-> FALSE, released |-> 0,
     sql |-> <<>>, rt |-> "idle", fnArg |-> "none", fnStmts |-> 0,
     fnResult |-> "null", failure |-> "null", thrown |-> "null",
     calls |-> <<>>,
     use |-> "new", ops |-> 0, closes |-> 0,
     last |-> [op |-> "none", err |-> "null", threw |-> FALSE]]

\* No transaction was created and runTransaction is not called.
NoTxn ==
    [NewTxn("none", FALSE, CHOOSE o \in Opts : ~o.given)
        EXCEPT !.rt = "unused"]

\* The outcome of a call: the objects after it and the error it threw or
\* returned ("null": none).
Outcome(t, e) == [t |-> t, err |-> e]

\* MySQLConn.close()
connClose(t) == [t EXCEPT !.released = @ + 1, !.conClosed = TRUE]

\* MySQLConn.exec(ctx, sql); ok: the server accepts the statement.
connExec(t, sql, ok) ==
    IF t.conClosed THEN Outcome(t, "Connection is closed")
    ELSE Outcome([t EXCEPT !.sql = Append(@, sql)],
                 IF ok THEN "null" ELSE "failed: " \o sql)

\* The switch of MySQLTxn.begin with every permitted level falling into the
\* first case.
isolationLevel_firstCase(level) ==
    IF level \in Levels THEN "REPEATABLE READ"
    ELSE "Unsupported isolation level"

\* The switch of MySQLTxn.begin over opts.isolationLevel.
isolationLevel(level) ==
    CASE level \in {"default", "repeatableRead"} -> "REPEATABLE READ"
      [] level = "readCommitted" -> "READ COMMITTED"
      [] level = "readUncommitted" -> "READ UNCOMMITTED"
      [] level = "serializable" -> "SERIALIZABLE"
      [] OTHER -> "Unsupported isolation level"

\* The catch block of MySQLTxn.begin without the close.
beginFailed_noClose(t, e) == Outcome(t, e)

\* The catch block of MySQLTxn.begin: close unless keepOpen, return err.
beginFailed(t, e) ==
    Outcome(IF ~t.keepOpen THEN connClose(t) ELSE t, e)

\* MySQLTxn.begin(ctx, opts); ok1, ok2: the server accepts SET TRANSACTION
\* and START TRANSACTION.  The error is returned, not thrown.
txnBegin(t, opts, ok1, ok2) ==
    LET o == IF opts.given THEN opts
             ELSE [given |-> TRUE, isolationLevel |-> "default",
                   readOnly |-> FALSE]
        rwMode == IF o.readOnly THEN "READ ONLY" ELSE "READ WRITE"
    IN IF o.isolationLevel \notin Levels
       THEN beginFailed(t, isolationLevel(o.isolationLevel))
       ELSE
         LET r1 == connExec(t, "SET TRANSACTION ISOLATION LEVEL "
                               \o isolationLevel(o.isolationLevel), ok1)
             r2 == connExec(r1.t, "START TRANSACTION " \o rwMode, ok2)
         IN IF r1.err # "null" THEN beginFailed(r1.t, r1.err)
            ELSE IF r2.err # "null" THEN beginFailed(r2.t, r2.err)
            ELSE Outcome([r2.t EXCEPT !.ready = TRUE], "null")

\* MySQLTxn.#checkStatus(): the error it throws, or "null"
checkStatus(t) ==
    IF ~t.ready THEN "Transaction is not yet ready"
    ELSE IF t.closed THEN "Transaction is already complete"
    ELSE "null"

\* MySQLTxn.exec(ctx, sql) without #checkStatus.
txnExec_noCheck(t, sql, ok) == connExec(t, sql, ok)

\* MySQLTxn.exec(ctx, sql)
txnExec(t, sql, ok) ==
    IF checkStatus(t) # "null" THEN Outcome(t, checkStatus(t))
    ELSE connExec(t, sql, ok)

\* MySQLConn.query(ctx, sql) and MySQLConn.queryRow(ctx, sql): the closed
\* test, then the statement on the connection (openRows with keepOpen).
connQuery(t, sql, ok) ==
    IF t.conClosed THEN Outcome(t, "Connection is closed")
    ELSE Outcome([t EXCEPT !.sql = Append(@, sql)],
                 IF ok THEN "null" ELSE "failed: " \o sql)

\* MySQLTxn.query(ctx, sql)
txnQuery(t, sql, ok) ==
    IF checkStatus(t) # "null" THEN Outcome(t, checkStatus(t))
    ELSE connQuery(t, sql, ok)

\* MySQLTxn.queryRow(ctx, sql)
txnQueryRow(t, sql, ok) ==
    IF checkStatus(t) # "null" THEN Outcome(t, checkStatus(t))
    ELSE connQuery(t, sql, ok)

\* commit() and rollback() without the finally block: the connection is
\* closed only after a statement the server accepted.
txnEnd_noFinally(t, sql, ok) ==
    IF checkStatus(t) # "null" THEN Outcome(t, checkStatus(t))
    ELSE LET r == connExec([t EXCEPT !.closed = TRUE], sql, ok)
         IN Outcome(IF ~t.keepOpen /\ r.err = "null" THEN connClose(r.t)
                    ELSE r.t, r.err)

\* commit() and rollback(): #checkStatus, #closed = true, the statement,
\* finally close unless keepOpen.
txnEnd(t, sql, ok) ==
    IF checkStatus(t) # "null" THEN Outcome(t, checkStatus(t))
    ELSE LET r == connExec([t EXCEPT !.closed = TRUE], sql, ok)
         IN Outcome(IF ~t.keepOpen THEN connClose(r.t) ELSE r.t, r.err)

\* MySQLTxn.commit()
txnCommit(t, ok) == txnEnd(t, "COMMIT", ok)

\* MySQLTxn.rollback()
txnRollback(t, ok) == txnEnd(t, "ROLLBACK", ok)

(* ---------------------------- runTransaction --------------------------- *)

queryVars == <<cfg, pc, con, q, closePc, cancelPc, killTid, pool, wire, log>>

\* runTransaction that begins a transaction whatever the mode of the API.
rtCall_alwaysBegin ==
    /\ txn.rt = "idle"
    /\ txn' = IF txn.api = "none"
              THEN [txn EXCEPT !.rt = "rejected",
                               !.thrown = "No storage API present on context"]
              ELSE [txn EXCEPT !.rt = "beginTxn",
                               !.calls = Append(@, "beginTxn")]
    /\ UNCHANGED <<queryVars, auxVars>>

\* runTransaction up to its first await: the API is looked up; a
\* transaction gets the callback at once, anything else is asked to begin
\* one.
rtCall ==
    /\ txn.rt = "idle"
    /\ txn' = IF txn.api = "none"
              THEN [txn EXCEPT !.rt = "rejected",
                               !.thrown = "No storage API present on context"]
              ELSE IF txn.api = "txn"
              THEN [txn EXCEPT !.rt = "fn", !.fnArg = "ctx"]
              ELSE [txn EXCEPT !.rt = "beginTxn",
                               !.calls = Append(@, "beginTxn")]
    /\ UNCHANGED <<queryVars, auxVars>>

\* `await cn.beginTxn(ctx, opts)`: Pool.beginTxn and Conn.beginTxn build
\* the MySQLTxn, await begin and throw the error it returns; then
\* runTransaction calls fn(childCtx, txn).
rtBeginTxn ==
    /\ txn.rt = "beginTxn"
    /\ \E ok1, ok2 \in BOOLEAN :
          LET r == txnBegin(txn, txn.opts, ok1, ok2) IN
          txn' = IF r.err # "null"
                 THEN [r.t EXCEPT !.rt = "rejected", !.thrown = r.err]
                 ELSE [r.t EXCEPT !.rt = "fn", !.fnArg = "childCtx"]
    /\ UNCHANGED <<queryVars, auxVars>>

\* The callback runs a statement on the transaction it was given; it lets
\* a failure of the statement propagate.
fnExec ==
    /\ txn.rt = "fn"
    /\ txn.fnStmts < MaxStmts
    /\ \E ok \in BOOLEAN :
          LET r == txnExec(txn, "INSERT", ok) IN
          txn' = IF r.err # "null"
                 THEN [r.t EXCEPT !.fnStmts = @ + 1, !.rt = "fnDone",
                                  !.fnResult = r.err]
                 ELSE [r.t EXCEPT !.fnStmts = @ + 1]
    /\ UNCHANGED <<queryVars, auxVars>>

\* The callback returns.
fnReturn ==
    /\ txn.rt = "fn"
    /\ txn' = [txn EXCEPT !.rt = "fnDone"]
    /\ UNCHANGED <<queryVars, auxVars>>

\* The callback throws an error of its own.
fnThrow ==
    /\ txn.rt = "fn"
    /\ txn' = [txn EXCEPT !.rt = "fnDone", !.fnResult = "Error: x"]
    /\ UNCHANGED <<queryVars, auxVars>>

\* The promise of the callback has settled: with a transaction on the
\* context it is the result of runTransaction; otherwise runTransaction
\* goes on to commit, or to the catch block.
rtFnDone ==
    /\ txn.rt = "fnDone"
    /\ txn' =
          IF txn.api = "txn"
          THEN [txn EXCEPT !.rt = IF txn.fnResult = "null" THEN "resolved"
                                  ELSE "rejected",
                           !.thrown = txn.fnResult]
          ELSE IF txn.fnResult = "null"
          THEN [txn EXCEPT !.rt = "commit", !.calls = Append(@, "commit")]
          ELSE [txn EXCEPT !.rt = "rollback", !.failure = txn.fnResult,
                           !.calls = Append(@, "rollback")]
    /\ UNCHANGED <<queryVars, auxVars>>

\* `await txn.commit()` settles.
rtCommit ==
    /\ txn.rt = "commit"
    /\ \E ok \in BOOLEAN :
          LET r == txnCommit(txn, ok) IN
          txn' = IF r.err = "null"
                 THEN [r.t EXCEPT !.rt = "resolved"]
                 ELSE [r.t EXCEPT !.rt = "rollback", !.failure = r.err,
                                  !.calls = Append(@, "rollback")]
    /\ UNCHANGED <<queryVars, auxVars>>

\* catch (e) { await txn.rollback(); throw e; }
rtRollback ==
    /\ txn.rt = "rollback"
    /\ \E ok \in BOOLEAN :
          LET r == txnRollback(txn, ok) IN
          txn' = [r.t EXCEPT !.rt = "rejected",
                             !.thrown = IF r.err = "null" THEN txn.failure
                                        ELSE r.err]
    /\ UNCHANGED <<queryVars, auxVars>>

(* ------------------- a caller using the transaction -------------------- *)

\* The surface of a transaction.
Surface == {"query", "queryRow", "exec", "commit", "rollback"}

\* The call of one method of the surface; ok: the server accepts the
\* statement the call sends.
surfaceCall(t, op, ok) ==
    CASE op = "query" -> txnQuery(t, "SELECT", ok)
      [] op = "queryRow" -> txnQueryRow(t, "SELECT ROW", ok)
      [] op = "exec" -> txnExec(t, "UPDATE", ok)
      [] op = "commit" -> txnCommit(t, ok)
      [] op = "rollback" -> txnRollback(t, ok)

\* The caller made a call that ended with e, thrown or returned.
called(t, op, e, threw) ==
    [t EXCEPT !.ops = @ + 1,
              !.last = [op |-> op, err |-> e, threw |-> threw]]

\* const txn = new MySQLTxn(con, keepOpen); const err = await txn.begin(ctx,
\* opts): the caller keeps the transaction whatever begin returned.
useBegin ==
    /\ txn.use = "new"
    /\ txn.ops < MaxCalls
    /\ \E ok1, ok2 \in BOOLEAN :
          LET r == txnBegin(txn, txn.opts, ok1, ok2) IN
          txn' = [called(r.t, "begin", r.err, FALSE) EXCEPT !.use = "held"]
    /\ UNCHANGED <<queryVars, auxVars>>

\* MySQLPool.beginTxn and MySQLConn.beginTxn: begin, then throw the error
\* it returned or return the transaction.
useBeginTxn ==
    /\ txn.use = "new"
    /\ txn.ops = 0
    /\ \E ok1, ok2 \in BOOLEAN :
          LET r == IF txn.api = "conn" /\ txn.conClosed
                   THEN Outcome(txn, "Connection is closed")
                   ELSE txnBegin(txn, txn.opts, ok1, ok2)
          IN txn' = [called(r.t, "beginTxn", r.err, r.err # "null")
                        EXCEPT !.use = IF r.err # "null" THEN "none"
                                       ELSE "held"]
    /\ UNCHANGED <<queryVars, auxVars>>

\* A call of query, queryRow, exec, commit or rollback on the transaction.
useCall ==
    /\ txn.use \in {"new", "held"}
    /\ txn.ops < MaxCalls
    /\ \E op \in Surface, ok \in BOOLEAN :
          LET r == surfaceCall(txn, op, ok) IN
          txn' = called(r.t, op, r.err, r.err # "null")
    /\ UNCHANGED <<queryVars, auxVars>>

\* The owner of the connection a transaction of MySQLConn.beginTxn runs on
\* calls MySQLConn.close().
ownerClose ==
    /\ txn.api = "conn"
    /\ txn.closes < MaxClose
    /\ txn' = [connClose(txn) EXCEPT !.closes = @ + 1]
    /\ UNCHANGED <<queryVars, auxVars>>

(* ------------------ getPoolConnection with a canceler ------------------ *)

\* One call of getPoolConnection_Cancelable, after clr.onCancel(...) and
\* pool.getConnection(...):
\*   pc                   "waiting" until the pool calls back, then "done"
\*   timedOut, resolved   the two flags of the closure
\*   listening            handle.onCancel is registered on the canceler
\*   canceled             the canceler has fired
\*   promise, value, err  the returned promise, the connection it resolved
\*                        with (0: none), the error it rejected with
\*   got                  the connection the pool delivered (0: none)
\*   held                 the caller holds the connection of the promise
\*   exception            an error thrown out of the pool's callback
NewGet(pcv) ==
    [pc |-> pcv, timedOut |-> FALSE, resolved |-> FALSE,
     listening |-> pcv = "waiting", canceled |-> FALSE,
     promise |-> "pending", value |-> 0, err |-> "null",
     got |-> 0, held |-> FALSE, exception |-> "null"]

\* reject(e) and resolve(con) of the promise: the first one wins.
getReject(g, e) ==
    IF g.promise = "pending" THEN [g EXCEPT !.promise = "rejected", !.err = e]
    ELSE g

getResolve(g, c) ==
    IF g.promise = "pending"
    THEN [g EXCEPT !.promise = "resolved", !.value = c, !.held = TRUE]
    ELSE g

\* handle.onCancel()
onCancel(g) ==
    LET g1 == [g EXCEPT !.listening = FALSE] IN
    IF g1.resolved THEN g1
    ELSE getReject([g1 EXCEPT !.timedOut = TRUE],
                   "Context was canceled before a connection was available")

\* The callback of pool.getConnection called with (null, con).  Yields the
\* call and the pool after it.
gotConnection(g, p, c) ==
    IF g.timedOut
    THEN [g |-> [g EXCEPT !.pc = "done", !.got = c], p |-> PoolRelease(p, c)]
    ELSE [g |-> getResolve([g EXCEPT !.pc = "done", !.got = c,
                                     !.resolved = TRUE,
                                     !.listening = FALSE], c),
          p |-> p]

\* The callback of pool.getConnection called with (err, undefined):
\* con.release() on undefined throws a TypeError out of the callback.
gotError(g, e) ==
    IF g.timedOut
    THEN [g EXCEPT !.pc = "done", !.exception = "TypeError"]
    ELSE getReject([g EXCEPT !.pc = "done", !.resolved = TRUE,
                             !.listening = FALSE], e)

\* The canceler of the context of call r fires: it calls the handlers
\* that are registered on it.
getCancel(r) ==
    /\ get[r].pc # "unused"
    /\ ~get[r].canceled
    /\ get' = [get EXCEPT ![r] =
                 IF get[r].listening
                 THEN onCancel([get[r] EXCEPT !.canceled = TRUE])
                 ELSE [get[r] EXCEPT !.canceled = TRUE]]
    /\ UNCHANGED <<queryVars, txn, db, iter, flat>>

\* The pool leases a free connection to call r.
getDeliver(r) ==
    /\ get[r].pc = "waiting"
    /\ \E c \in Conns : pool.free[c] > 0
    /\ LET c == PoolFirst(pool)
           o == gotConnection(get[r], PoolTake(pool, c), c)
       IN /\ get' = [get EXCEPT ![r] = o.g]
          /\ pool' = o.p
    /\ UNCHANGED <<cfg, pc, con, q, closePc, cancelPc, killTid, wire, log>>
    /\ UNCHANGED <<txn, db, iter, flat>>

\* The pool fails call r (no connection could be made, the pool is closed).
getDeliverError(r) ==
    /\ get[r].pc = "waiting"
    /\ get' = [get EXCEPT ![r] = gotError(get[r], "pool error")]
    /\ UNCHANGED <<queryVars, txn, db, iter, flat>>

\* The caller that received the connection is done with it: con.release()
\* (the finally of usePoolConnection).
getRelease(r) ==
    /\ get[r].held
    /\ get' = [get EXCEPT ![r].held = FALSE]
    /\ pool' = PoolRelease(pool, get[r].value)
    /\ UNCHANGED <<cfg, pc, con, q, closePc, cancelPc, killTid, wire, log>>
    /\ UNCHANGED <<txn, db, iter, flat>>

(* ------------------------------ MySQLPool ------------------------------ *)

\* The operations of MySQLPool that need a connection.
PoolOps == {"conn", "query", "queryRow", "exec", "beginTxn"}

\* A MySQLPool object and its caller:
\*   closed          MySQLPool.#closed
\*   ends            calls of end() on the wire pool
\*   ops, closes     calls of the operations and of close() made so far
\*   last            the last call, the error it threw and the connection
\*                   it acquired (0: none)
NewDb ==
    [use |-> "open", closed |-> FALSE, ends |-> 0, ops |-> 0, closes |-> 0,
     last |-> [op |-> "none", err |-> "null", took |-> 0]]

\* MySQLPool.close() that ends the wire pool on every call.
poolClose_always(d) == [d EXCEPT !.closed = TRUE, !.ends = @ + 1]

\* MySQLPool.close()
poolClose(d) ==
    IF d.closed THEN d
    ELSE [d EXCEPT !.closed = TRUE, !.ends = @ + 1]

\* MySQLPool.#checkStatus() and the test at the head of conn(): the error
\* thrown, or "null".
poolCheckStatus(d) == IF d.closed THEN "Pool is closed" ELSE "null"

\* A call of close() on the MySQLPool.
dbClose ==
    /\ db.use = "open"
    /\ db.closes < MaxClose
    /\ db' = [poolClose(db) EXCEPT
                 !.closes = @ + 1,
                 !.last = [op |-> "close", err |-> "null", took |-> 0]]
    /\ UNCHANGED <<queryVars, txn, get, iter, flat>>

\* A call of conn, query, queryRow, exec or beginTxn, up to the moment
\* getPoolConnection settles; ok: the wire pool delivers a connection.
dbCall ==
    /\ db.use = "open"
    /\ db.ops < MaxCalls
    /\ \E op \in PoolOps, ok \in BOOLEAN :
          IF poolCheckStatus(db) # "null"
          THEN /\ db' = [db EXCEPT !.ops = @ + 1,
                                   !.last = [op |-> op,
                                             err |-> poolCheckStatus(db),
                                             took |-> 0]]
               /\ pool' = pool
          ELSE IF ~ok
          THEN /\ db' = [db EXCEPT !.ops = @ + 1,
                                   !.last = [op |-> op, err |-> "pool error",
                                             took |-> 0]]
               /\ pool' = pool
          ELSE /\ \E c \in Conns : pool.free[c] > 0
               /\ db' = [db EXCEPT !.ops = @ + 1,
                                   !.last = [op |-> op, err |-> "null",
                                             took |-> PoolFirst(pool)]]
               /\ pool' = PoolTake(pool, PoolFirst(pool))
    /\ UNCHANGED <<cfg, pc, con, q, closePc, cancelPc, killTid, wire, log>>
    /\ UNCHANGED <<txn, get, iter, flat>>

\* The work of an earlier call is over and its connection goes back to the
\* wire pool.
dbRelease ==
    /\ db.use = "open"
    /\ \E c \in Conns :
          /\ pool.acquired[c] > pool.released[c]
          /\ pool' = PoolRelease(pool, c)
    /\ UNCHANGED <<cfg, pc, con, q, closePc, cancelPc, killTid, wire, log>>
    /\ UNCHANGED <<txn, get, db, iter, flat>>

(* --------------------------- async iteration --------------------------- *)

\* A `for await (const row of rows)` loop over a MySQLQuery:
\*   pc        "idle" before the loop, "next" while the generator awaits
\*             this.next(), "body" while the loop body runs with the row
\*             that was yielded, "closing" while the finally block awaits
\*             this.close(), "done" when the loop is over
\*   yielded   the rows handed to the loop body, in order
\*   how       why the generator left its while loop
NewIter == [use |-> "loop", pc |-> "idle", yielded |-> <<>>, how |-> "none"]

\* The generator leaves the while loop without running its finally block
\* when the loop body breaks.
generatorFinally_notOnBreak(how) ==
    IF how = "break"
    THEN /\ iter' = [iter EXCEPT !.pc = "done", !.how = how]
         /\ UNCHANGED <<q, closePc, cancelPc, killTid, pool>>
    ELSE /\ close(nClose + 1)
         /\ iter' = [iter EXCEPT !.pc = "closing", !.how = how]

\* finally { await this.close(); } up to the first await of close().
generatorFinally(how) ==
    /\ close(nClose + 1)
    /\ iter' = [iter EXCEPT !.pc = "closing", !.how = how]

\* The loop asks the generator for the first row: await this.next().
iterStart ==
    /\ pc = "streaming"
    /\ iter.pc = "idle"
    /\ q' = next(q)
    /\ iter' = [iter EXCEPT !.pc = "next"]
    /\ UNCHANGED <<cfg, pc, con, closePc, cancelPc, killTid, pool, wire, log>>
    /\ UNCHANGED <<txn, get, db, flat>>

\* `await this.next()` settled: yield this.row on true, leave the loop on
\* false, and on a rejection leave it with the error.
iterNextSettled ==
    /\ iter.pc = "next"
    /\ q.lastNext \in {"true", "false", "reject"}
    /\ IF q.lastNext = "true"
       THEN /\ iter' = [iter EXCEPT !.pc = "body",
                                    !.yielded = Append(@, q.row)]
            /\ UNCHANGED <<q, closePc, cancelPc, killTid, pool>>
       ELSE generatorFinally(IF q.lastNext = "false" THEN "exhausted"
                             ELSE "error")
    /\ UNCHANGED <<cfg, pc, con, wire, log>>
    /\ UNCHANGED <<txn, get, db, flat>>

\* The loop body ends: normally, and the generator is resumed and awaits
\* this.next() again; with break or with a throw, and the loop calls
\* return() on the generator, which runs its finally block.
iterBody ==
    /\ iter.pc = "body"
    /\ \E exit \in {"continue", "break", "throw"} :
          IF exit = "continue"
          THEN /\ q' = next(q)
               /\ iter' = [iter EXCEPT !.pc = "next"]
               /\ UNCHANGED <<closePc, cancelPc, killTid, pool>>
          ELSE generatorFinally(exit)
    /\ UNCHANGED <<cfg, pc, con, wire, log>>
    /\ UNCHANGED <<txn, get, db, flat>>

\* `await this.close()` of the finally block settled: the loop is over.
iterClosed ==
    /\ iter.pc = "closing"
    /\ closePc[nClose] \in {"resolved", "rejected"}
    /\ iter' = [iter EXCEPT !.pc = "done"]
    /\ UNCHANGED <<queryVars, txn, get, db, flat>>

(* ------------------------- statement parameters ------------------------ *)

\* JavaScript values a caller passes as a parameter: null, undefined, a
\* number, a string, a Date, and a plain object that has a property called
\* name (a JSON value).
Null == [t |-> "null"]
Undefined == [t |-> "undefined"]
RawValues ==
    {Null, Undefined, [t |-> "number"], [t |-> "string"], [t |-> "Date"],
     [t |-> "object", name |-> "n"]}

\* new NamedParam(name, value)
NamedParams == {[t |-> "NamedParam", name |-> "p", value |-> v] :
                    v \in RawValues}

ParamValues == RawValues \cup NamedParams

\* val.name and val.value as JavaScript evaluates them: a TypeError on null
\* and undefined, undefined where the value has no such property.
propName(val) ==
    IF val.t \in {"null", "undefined"} THEN "TypeError"
    ELSE IF val.t \in {"NamedParam", "object"} THEN val.name
    ELSE "undefined"

propValue(val) ==
    IF val.t = "NamedParam" THEN val.value ELSE Undefined

\* The loop at the head of openRows and execStmt over params, from inputs
\* collected so far: the list passed to con.query, or the error thrown.
RECURSIVE flatten(_, _)
flatten(params, inputs) ==
    IF params = <<>> THEN [inputs |-> inputs, err |-> "null"]
    ELSE LET val == Head(params) IN
         IF propName(val) = "TypeError"
         THEN [inputs |-> inputs, err |-> "TypeError"]
         ELSE IF propName(val) # "undefined"
         THEN flatten(Tail(params), Append(inputs, propValue(val)))
         ELSE flatten(Tail(params), Append(inputs, val))

\* A call of openRows or execStmt with params, before its loop.
NewFlat(fn, params) ==
    [use |-> "call", pc |-> "called", fn |-> fn, params |-> params,
     inputs |-> <<>>, err |-> "null"]

\* The call runs its loop and reaches con.query(sql, inputs), or throws.
flattenParams ==
    /\ flat.use = "call"
    /\ flat.pc = "called"
    /\ LET r == flatten(flat.params, <<>>) IN
       flat' = [flat EXCEPT !.pc = IF r.err = "null" THEN "query"
                                   ELSE "thrown",
                            !.inputs = r.inputs, !.err = r.err]
    /\ UNCHANGED <<queryVars, txn, get, db, iter>>

(* --------------------------- specifications ----------------------------- *)

Kinds == {"queryRow", "exec", "query", "conn"}

\* The statement side before anything was called.
QueryInit(scenarios) ==
    /\ cfg \in scenarios
    /\ pc = "start"
    /\ con = IF cfg.kind = "conn" THEN 1 ELSE 0
    /\ q = NewQuery
    /\ closePc = [i \in CloseIds |-> "none"]
    /\ cancelPc = [j \in CancelIds |-> "none"]
    /\ killTid = [j \in CancelIds |-> 0]
    /\ pool = [free |-> [c \in Conns |->
                            IF cfg.kind = "conn" /\ c = 1 THEN 0 ELSE 1],
               acquired |-> [c \in Conns |->
                            IF cfg.kind = "conn" /\ c = 1 THEN 1 ELSE 0],
               released |-> [c \in Conns |-> 0],
               ended |-> {}, destroyed |-> {}]
    /\ wire = [drv |-> "idle", sent |-> 0, killed |-> FALSE]
    /\ log = [kills |-> {}, failed |-> FALSE, closedWaiting |-> FALSE]

\* No call of getPoolConnection is under way.
NoGet == [r \in GetIds |-> NewGet("unused")]

\* No MySQLPool object, no loop and no parameter list are in use.
NoDb == [NewDb EXCEPT !.use = "unused"]
NoIter == [NewIter EXCEPT !.use = "unused"]
NoFlat == [NewFlat("none", <<>>) EXCEPT !.use = "unused"]

InitQuery(scenarios) ==
    /\ get = NoGet
    /\ db = NoDb
    /\ iter = NoIter
    /\ flat = NoFlat
    /\ QueryInit(scenarios)

\* A statement is run with no transaction around.
InitWith(scenarios) ==
    /\ InitQuery(scenarios)
    /\ txn = NoTxn

\* Every operation on every small statement, with and without a canceler.
Scenarios ==
    [kind : Kinds, stmt : {"rows"}, numRows : 0..MaxRows,
     honorsPause : {TRUE}, hasClr : BOOLEAN]
    \cup
    [kind : Kinds, stmt : {"exec"}, numRows : {0},
     honorsPause : {TRUE}, hasClr : BOOLEAN]

Init == InitWith(Scenarios)

Next ==
    \/ acquire
    \/ acquireFail
    \/ openOnConn
    \/ opened
    \/ qrNextDone
    \/ closeDone
    \/ release
    \/ consumerNext
    \/ consumerClose
    \/ cancelSignal
    \/ \E i \in CloseIds : closeResume(i)
    \/ \E i \in CloseIds : closeSettle(i)
    \/ \E j \in CancelIds : killQuery(j)
    \/ drvFields
    \/ drvResult
    \/ drvEnd
    \/ drvError
    \/ drvEndAfterError

Spec == Init /\ [][Next]_vars

\* Backpressure: a long result set read from a returned stream, under a
\* driver that honors pause() and under one that keeps emitting.
FlowScenarios ==
    [kind : {"query", "conn"}, stmt : {"rows"}, numRows : {0, 1, FlowRows},
     honorsPause : BOOLEAN, hasClr : {FALSE}]

InitFlow == InitWith(FlowScenarios)

NextFlow ==
    \/ acquire
    \/ openOnConn
    \/ opened
    \/ consumerNext
    \/ drvFields
    \/ drvResult
    \/ drvEnd

SpecFlow == InitFlow /\ [][NextFlow]_vars

\* Cancellation of a returned stream, by one close() call or by the canceler
\* of the context or by both, on every small result set.
CancelScenarios ==
    [kind : {"query", "conn"}, stmt : {"rows"}, numRows : 0..MaxRows,
     honorsPause : {TRUE}, hasClr : {TRUE}]

InitCancel == InitWith(CancelScenarios)

NextCancel ==
    \/ acquire
    \/ openOnConn
    \/ opened
    \/ closeDone
    \/ consumerNext
    \/ (nClose = 0 /\ consumerClose)
    \/ cancelSignal
    \/ \E i \in CloseIds : closeResume(i)
    \/ \E i \in CloseIds : closeSettle(i)
    \/ \E j \in CancelIds : killQuery(j)
    \/ drvFields
    \/ drvResult
    \/ drvEnd
    \/ drvError
    \/ drvEndAfterError

\* The server runs a statement to its end and the driver emits the events
\* of a running query; an interrupted statement reports its interrupt.  A
\* failure of another kind may or may not happen.
DriverProgress ==
    \/ drvFields
    \/ drvResult
    \/ drvEnd
    \/ (wire.killed /\ drvError)

SpecCancel == InitCancel /\ [][NextCancel]_vars /\ WF_vars(DriverProgress)

\* A MySQLQuery used directly on a held connection: next() and close() may
\* be called before the fields have arrived.
DirectScenarios ==
    [kind : {"conn"}, stmt : {"rows", "exec"}, numRows : 0..MaxRows,
     honorsPause : {TRUE}, hasClr : BOOLEAN]

InitDirect == InitWith(DirectScenarios)

NextDirect ==
    \/ construct
    \/ consumerNext
    \/ (nClose = 0 /\ consumerClose)
    \/ cancelSignal
    \/ \E i \in CloseIds : closeResume(i)
    \/ \E i \in CloseIds : closeSettle(i)
    \/ \E j \in CancelIds : killQuery(j)
    \/ drvFields
    \/ drvResult
    \/ drvEnd
    \/ drvError
    \/ drvEndAfterError

SpecDirect == InitDirect /\ [][NextDirect]_vars

\* runTransaction on a context that carries a pool, a connection, a
\* transaction that has begun, or no storage API.
TxnScenarios ==
    {NewTxn("pool", FALSE, o) : o \in Opts}
    \cup {NewTxn("conn", TRUE, o) : o \in Opts}
    \cup {[NewTxn("txn", k, o) EXCEPT !.ready = TRUE] :
              k \in BOOLEAN, o \in Opts}
    \cup {NewTxn("none", FALSE, o) : o \in Opts}

\* No statement of the query engine is under way.
IdleQuery ==
    [kind |-> "conn", stmt |-> "rows", numRows |-> 0, honorsPause |-> TRUE,
     hasClr |-> FALSE]

InitTxn ==
    /\ InitQuery({IdleQuery})
    /\ txn \in TxnScenarios

NextTxn ==
    \/ rtCall
    \/ rtBeginTxn
    \/ fnExec
    \/ fnReturn
    \/ fnThrow
    \/ rtFnDone
    \/ rtCommit
    \/ rtRollback

SpecTxn == InitTxn /\ [][NextTxn]_vars

\* A caller uses a transaction of MySQLPool.beginTxn (its own connection,
\* keepOpen false) or of MySQLConn.beginTxn (the connection of its owner,
\* keepOpen true) through its surface, in any order.
UseScenarios ==
    {[NewTxn("pool", FALSE, o) EXCEPT !.rt = "unused"] : o \in Opts}
    \cup {[NewTxn("conn", TRUE, o) EXCEPT !.rt = "unused"] : o \in Opts}

InitUse ==
    /\ InitQuery({IdleQuery})
    /\ txn \in UseScenarios

NextUse ==
    \/ useBegin
    \/ useBeginTxn
    \/ useCall
    \/ ownerClose

SpecUse == InitUse /\ [][NextUse]_vars

\* Callers with a cancelable context ask one pool for connections at the
\* same time; the pool answers each with a connection or an error, before
\* or after the context is canceled.
PoolIdle ==
    [kind |-> "query", stmt |-> "rows", numRows |-> 0, honorsPause |-> TRUE,
     hasClr |-> TRUE]

InitGet ==
    /\ QueryInit({PoolIdle})
    /\ txn = NoTxn
    /\ get = [r \in GetIds |-> NewGet("waiting")]
    /\ db = NoDb
    /\ iter = NoIter
    /\ flat = NoFlat

NextGet ==
    \E r \in GetIds :
        \/ getCancel(r)
        \/ getDeliver(r)
        \/ getDeliverError(r)
        \/ getRelease(r)

SpecGet == InitGet /\ [][NextGet]_vars

\* A caller makes calls on a MySQLPool object in any order, close()
\* among them.
InitPool ==
    /\ QueryInit({PoolIdle})
    /\ txn = NoTxn
    /\ get = NoGet
    /\ db = NewDb
    /\ iter = NoIter
    /\ flat = NoFlat

NextPool ==
    \/ dbClose
    \/ dbCall
    \/ dbRelease

SpecPool == InitPool /\ [][NextPool]_vars

\* A for await loop reads a query on a connection the caller holds; the
\* loop body carries on, breaks or throws at every row.
IterScenarios ==
    [kind : {"conn"}, stmt : {"rows"}, numRows : 0..MaxRows,
     honorsPause : {TRUE}, hasClr : {FALSE}]

InitIter ==
    /\ QueryInit(IterScenarios)
    /\ txn = NoTxn
    /\ get = NoGet
    /\ db = NoDb
    /\ iter = NewIter
    /\ flat = NoFlat

NextIter ==
    \/ construct
    \/ iterStart
    \/ iterNextSettled
    \/ iterBody
    \/ iterClosed
    \/ \E i \in CloseIds : closeResume(i)
    \/ \E i \in CloseIds : closeSettle(i)
    \/ \E j \in CancelIds : killQuery(j)
    \/ drvFields
    \/ drvResult
    \/ drvEnd
    \/ drvError
    \/ drvEndAfterError

SpecIter == InitIter /\ [][NextIter]_vars

\* openRows or execStmt is called with any list of up to MaxParams
\* parameters.
ParamLists == UNION {[1..n -> ParamValues] : n \in 0..MaxParams}

InitFlat ==
    /\ QueryInit({IdleQuery})
    /\ txn = NoTxn
    /\ get = NoGet
    /\ db = NoDb
    /\ iter = NoIter
    /\ flat \in {NewFlat(fn, ps) : fn \in {"openRows", "execStmt"},
                                    ps \in ParamLists}

NextFlat == flattenParams

SpecFlat == InitFlat /\ [][NextFlat]_vars

\* A stream of MySQLPool.query large enough to be paused is closed while
\* the connection is paused, and read on after that.
PauseScenarios ==
    [kind : {"query"}, stmt : {"rows"}, numRows : {FlowRows},
     honorsPause : {TRUE}, hasClr : {FALSE}]

InitPause == InitWith(PauseScenarios)

NextPause ==
    \/ acquire
    \/ opened
    \/ consumerNext
    \/ (q.paused /\ consumerClose)
    \/ \E i \in CloseIds : closeResume(i)
    \/ \E i \in CloseIds : closeSettle(i)
    \/ drvFields
    \/ drvResult
    \/ drvEnd

SpecPause == InitPause /\ [][NextPause]_vars

\* The four operations on a driver that follows the event order
\* fields, result*, end or fields, error: no end event comes after an
\* error.  Whatever can run does run.
OpenFailScenarios ==
    [kind : Kinds, stmt : {"rows"}, numRows : 0..MaxRows,
     honorsPause : {TRUE}, hasClr : {FALSE}]
    \cup
    [kind : Kinds, stmt : {"exec"}, numRows : {0},
     honorsPause : {TRUE}, hasClr : {FALSE}]

InitOpenFail == InitWith(OpenFailScenarios)

NextOpenFail ==
    \/ acquire
    \/ openOnConn
    \/ opened
    \/ qrNextDone
    \/ closeDone
    \/ release
    \/ consumerNext
    \/ \E i \in CloseIds : closeResume(i)
    \/ \E i \in CloseIds : closeSettle(i)
    \/ \E j \in CancelIds : killQuery(j)
    \/ drvFields
    \/ drvResult
    \/ drvEnd
    \/ drvError

SpecOpenFail ==
    InitOpenFail /\ [][NextOpenFail]_vars /\ WF_vars(NextOpenFail)

(* ------------- close() of a keepOpen=true stream, pool leased ------------ *)

\* Streams of Conn.query on a connection the caller leased from the pool.
LeasedScenarios ==
    [kind : {"conn"}, stmt : {"rows"}, numRows : 0..MaxRows,
     honorsPause : {TRUE}, hasClr : {FALSE}]

\* Every connection of the pool is leased: the in-flight one by the caller,
\* the others by other users of the pool.
InitLeased ==
    /\ cfg \in LeasedScenarios
    /\ pc = "start"
    /\ con = 1
    /\ q = NewQuery
    /\ closePc = [i \in CloseIds |-> "none"]
    /\ cancelPc = [j \in CancelIds |-> "none"]
    /\ killTid = [j \in CancelIds |-> 0]
    /\ pool = [free |-> [c \in Conns |-> 0],
               acquired |-> [c \in Conns |-> 1],
               released |-> [c \in Conns |-> 0],
               ended |-> {}, destroyed |-> {}]
    /\ wire = [drv |-> "idle", sent |-> 0, killed |-> FALSE]
    /\ log = [kills |-> {}, failed |-> FALSE, closedWaiting |-> FALSE]
    /\ txn = NoTxn
    /\ get = NoGet
    /\ db = NoDb
    /\ iter = NoIter
    /\ flat = NoFlat

\* Another user of the pool gives its connection back.
lesseeRelease ==
    /\ \E k \in Conns \ {con} :
          /\ pool.free[k] = 0
          /\ pool.released[k] = 0
          /\ pool' = PoolRelease(pool, k)
    /\ UNCHANGED <<txn, auxVars>>
    /\ UNCHANGED <<cfg, pc, con, q, closePc, cancelPc, killTid, wire, log>>

NextLeased ==
    \/ openOnConn
    \/ opened
    \/ consumerNext
    \/ (nClose = 0 /\ consumerClose)
    \/ \E i \in CloseIds : closeResume(i)
    \/ \E i \in CloseIds : closeSettle(i)
    \/ \E j \in CancelIds : killQuery(j)
    \/ drvFields
    \/ drvResult
    \/ drvEnd
    \/ (wire.killed /\ drvError)
    \/ drvEndAfterError
    \/ lesseeRelease

\* No statement fails of itself: an error is the interrupt of KILL QUERY.
\* The driver delivers the events of the statement, the steps of close()
\* run when they can, and a free connection is handed to the waiting
\* cancelQuery.  Nothing obliges another user of the pool to release.
SpecLeased ==
    /\ InitLeased
    /\ [][NextLeased]_vars
    /\ WF_vars(DriverProgress \/ drvEndAfterError)
    /\ WF_vars(\E i \in CloseIds : closeResume(i) \/ closeSettle(i))
    /\ WF_vars(\E j \in CancelIds : killQuery(j))


(* ------------------------------- claims --------------------------------- *)

\* The run so far had no driver error, no cancel and no running close().
Clean == q.err = "none" /\ ~q.canceling /\ wire.drv # "errored"

\* C1: with fields, N rows, end and no error, cancel or close, the settled
\* next() calls are N times true and then only false, whatever the
\* interleaving of pushes and calls: never more than N trues, no rejection,
\* no true after a false, no false before the N-th true, and no call left
\* pending once the driver has emitted end.
C1_NRowsThenFalse ==
    (pc = "streaming" /\ Clean) =>
        /\ q.trues <= cfg.numRows
        /\ q.rejects = 0
        /\ ~q.trueAfterFalse
        /\ (q.falses > 0 => q.trues = cfg.numRows)
        /\ (wire.drv = "ended" => q.lastNext # "pending")

C1_Witness ==
    /\ Clean
    /\ cfg.numRows = FlowRows
    /\ q.trues = FlowRows
    /\ q.falses = 1
    /\ q.pauseCalls >= 1

\* C2: Pool.queryRow and Pool.exec release the connection they leased
\* exactly once: never twice, and once by the time the call has settled.
C2_ReleasedExactlyOnce ==
    (cfg.kind \in {"queryRow", "exec"} /\ con # 0) =>
        /\ pool.released[con] <= 1
        /\ (pc = "settled" => pool.released[con] = 1)

\* A close() call has resolved.
SomeCloseResolved == \E i \in CloseIds : closePc[i] = "resolved"

\* C3: a stream of Pool.query (keepOpen=false) that was read to its end, was
\* closed, or hit a terminal error has released its connection exactly once.
C3_StreamReleasesOnce ==
    (cfg.kind = "query" /\ pc = "streaming") =>
        /\ pool.released[con] <= 1
        /\ (q.falses > 0 \/ SomeCloseResolved \/ q.err # "none"
              => pool.released[con] = 1)

\* Close calls whose #cancel() has acted on the wire: released the
\* connection (keepOpen=false) or run KILL QUERY (keepOpen=true).
WireCancels == {i \in CloseIds : cancelPc[i] = "done"}

\* C4: close() is idempotent: however many close() calls a stream gets, at
\* most one of them acts on the wire (one release, one KILL QUERY).
C4_CloseIdempotent ==
    Cardinality(WireCancels) <= 1

\* C5: a single close() called while a next() is pending is not left
\* pending: once the driver has emitted its last event, the close() call is
\* not waiting on an unsettled handle.
C5_CloseSettlesWithPendingNext ==
    (log.closedWaiting /\ nClose = 1 /\ wire.drv = "ended") =>
        \A i \in CloseIds :
            closePc[i] = "awaitHandle" => q.hState[i] # "pending"

\* C6: once a close() call has resolved, no next() call resolves true and no
\* buffered row becomes the current row.
C6_CloseDiscardsBuffer ==
    [][SomeCloseResolved => q'.trues = q.trues /\ q'.row = q.row]_vars

\* C7 (as claimed): the buffer never holds more than highWater + 1 rows,
\* whatever the driver emits.
C7_BufferBoundedAnyDriver ==
    Len(q.buf) <= highWater + 1

\* C7 (amended): the buffer never holds more than highWater + 1 rows when the
\* driver emits no result between con.pause() and con.resume().
C7_BufferBounded ==
    cfg.honorsPause => Len(q.buf) <= highWater + 1

C7_Witness ==
    /\ cfg.honorsPause
    /\ Len(q.buf) = highWater
    /\ q.conPaused
    /\ wire.sent < cfg.numRows

\* C8: while no cancel or close has reached the query, con.pause() is
\* requested once, exactly in the step that brings the buffer from
\* highWater - 1 to highWater on an unpaused connection, and con.resume() is
\* requested once, exactly in the step that drains the buffer from
\* resume + 1 to resume on a paused connection; nothing else toggles the
\* connection.
C8_PauseResumeCycle ==
    [][~q.canceling =>
        /\ q'.pauseCalls = q.pauseCalls +
              (IF Len(q.buf) = highWater - 1 /\ Len(q'.buf) = highWater
                  /\ ~q.conPaused THEN 1 ELSE 0)
        /\ q'.resumeCalls = q.resumeCalls +
              (IF Len(q.buf) = resume + 1 /\ Len(q'.buf) = resume
                  /\ q.conPaused THEN 1 ELSE 0)
        /\ q'.conPaused = (q'.pauseCalls > q'.resumeCalls)]_vars

C8_Witness ==
    /\ q.pauseCalls = 2
    /\ q.resumeCalls = 2
    /\ q.falses = 1

\* C9: once a cancel has reached a stream with keepOpen=false, its wire
\* connection has been ended or destroyed.
C9_CancelClosesWire ==
    (~keepOpen /\ con # 0 /\ q.canceling) =>
        con \in pool.ended \cup pool.destroyed

\* C10: with keepOpen=true every KILL QUERY run carries the thread id of the
\* in-flight connection and runs on another connection of the pool, and the
\* in-flight connection is never released, ended or destroyed.
C10_KillOnSideband ==
    keepOpen =>
        /\ \A k \in log.kills :
              /\ k.thread = threadId(con)
              /\ k.via \in Conns \ {con}
        /\ pool.released[con] = 0
        /\ con \notin pool.ended \cup pool.destroyed

C10_Witness ==
    /\ keepOpen
    /\ log.kills # {}
    /\ q.err = "ER_QUERY_INTERRUPTED"
    /\ q.done

\* C11: an ER_QUERY_INTERRUPTED error that reaches a canceling query is not
\* surfaced: no next() call, pending or later, is rejected and no close()
\* handle is rejected.
C11_InterruptNotSurfaced ==
    (q.canceling /\ q.err = "ER_QUERY_INTERRUPTED") =>
        /\ q.rejects = 0
        /\ \A i \in CloseIds : q.hState[i] # "rejected"

\* A next() call was pending when a cancel reached the query, and still is.
PendingCanceled == q.waitNext /\ q.cancelWaiting

\* C12 (as claimed): a next() call pending when the cancel is delivered
\* eventually resolves false and is never rejected.
C12_PendingNextFalseNeverRejects ==
    /\ PendingCanceled ~> (~q.waitNext /\ q.lastNext = "false")
    /\ [][PendingCanceled => q'.lastNext # "reject"]_vars

\* C12 (amended): a next() call pending when the cancel is delivered
\* eventually resolves false, and is not rejected with the interrupt, unless
\* the driver reports a failure other than the interrupt first; that
\* failure rejects it.
C12_PendingNextFalseUnlessFailure ==
    /\ PendingCanceled ~>
          (~q.waitNext /\ (q.lastNext = "false" \/ q.err = "ER_FAIL"))
    /\ [][PendingCanceled =>
            (q'.lastNext = "reject" => q'.err = "ER_FAIL")]_vars

C12_Witness ==
    /\ q.cancelWaiting
    /\ q.err = "ER_QUERY_INTERRUPTED"
    /\ q.nextCalls = 1
    /\ q.lastNext = "false"

\* C13: once a next() call has resolved false, the latest next() call has
\* resolved false too: it is not pending, was not rejected and did not
\* resolve true.
C13_FalseIsFinal ==
    q.falses > 0 => q.lastNext = "false"

\* Once an error of the set codes is recorded: the next() call pending at
\* that moment is rejected, every later next() call is rejected and leaves
\* the buffer and the current row alone, and the stored error stays.
ErrorSurfaced(codes) ==
    /\ (q.err = "none" /\ q'.err \in codes /\ q.waitNext)
          => (~q'.waitNext /\ q'.lastNext = "reject")
    /\ (q.err \in codes /\ q'.nextCalls = q.nextCalls + 1)
          => (q'.lastNext = "reject" /\ q'.buf = q.buf /\ q'.row = q.row)
    /\ q.err \in codes => q'.err = q.err

OpeningError(codes) ==
    (~q.ready /\ q.err = "none" /\ q'.err \in codes) =>
        /\ q'.ready /\ q'.readyVal = q'.err
        /\ q.waitNext => (~q'.waitNext /\ q'.lastNext = "reject")
        /\ q.waitClose # 0 =>
              (q'.waitClose = 0 /\ q'.hState[q.waitClose] = "rejected")

\* C15 (as claimed): every error reported before the fields or the exec
\* result is the value of ready() and rejects the pending next() and
\* close().
C15_AnyOpeningError ==
    [][OpeningError({"ER_FAIL", "ER_QUERY_INTERRUPTED"})]_vars

\* C15 (amended): every error reported before the fields or the exec
\* result, other than the interrupt of a canceling query, is the value of
\* ready() and rejects the pending next() and close().
C15_OpeningFailure ==
    [][OpeningError({"ER_FAIL"})]_vars

C15_Witness ==
    /\ q.readyVal = "ER_FAIL"
    /\ ~q.columns /\ ~q.result
    /\ q.nextCalls = 1 /\ q.rejects = 1
    /\ \E i \in CloseIds : q.hState[i] = "rejected"

\* C16: a result event that arrives once #canceling is set changes nothing
\* of the query: the buffer, the current row and the exec result stay as
\* they are, a waiting next() stays waiting and no promise is settled.
C16_ResultDiscardedWhenCanceling ==
    [][(q.canceling /\ wire'.sent = wire.sent + 1) => q' = q]_vars

C16_Witness ==
    /\ q.canceling
    /\ cfg.stmt = "rows" /\ cfg.numRows = MaxRows
    /\ wire.sent = MaxRows
    /\ q.waitNext
    /\ q.trues = 0 /\ Len(q.buf) = 0

\* C17: no step of a query with keepOpen=true (next, close, cancel, the
\* fields, result, end and error handlers, the KILL QUERY of its cancel)
\* releases, ends or destroys the connection the query runs on, or puts it
\* back on the free list.
C17_KeepOpenLeavesConnection ==
    [][keepOpen =>
        /\ pool'.released[con] = pool.released[con]
        /\ pool'.free[con] = pool.free[con]
        /\ (con \in pool'.ended) = (con \in pool.ended)
        /\ (con \in pool'.destroyed) = (con \in pool.destroyed)]_vars

C17_Witness ==
    /\ keepOpen
    /\ q.trues > 0
    /\ q.canceling /\ q.done
    /\ SomeCloseResolved
    /\ log.kills # {}

\* C18: on an exec statement that runs without error or cancel, no next()
\* call resolves true or is rejected and none stays pending once the driver
\* is done, result() returns the stored packet once the query is ready, and
\* columns and columnTypes throw an error, never null.
C18_ExecStatement ==
    (cfg.stmt = "exec" /\ pc = "streaming" /\ Clean) =>
        /\ q.trues = 0 /\ q.rejects = 0
        /\ (wire.drv = "ended" => q.lastNext # "pending")
        /\ (q.ready => result(q) = Returns("MySQLResult"))
        /\ columns(q).kind = "throw" /\ columns(q).val # "none"
        /\ columnTypes(q).kind = "throw" /\ columnTypes(q).val # "none"

\* The statements sent on the connection of the transaction.
Sent(t) == {t.sql[i] : i \in DOMAIN t.sql}

\* runTransaction has settled.
Settled(t) == t.rt \in {"resolved", "rejected"}

\* C19: on a context whose API is not a transaction, the callback runs only
\* with a transaction that has begun, in a derived context; when
\* runTransaction resolves, the callback succeeded, COMMIT was sent and
\* accepted and no ROLLBACK was sent; when the callback or the commit
\* failed, ROLLBACK was sent and runTransaction rejects with that failure.
C19_CommitOrRollback ==
    (txn.api \in {"pool", "conn"}) =>
        /\ txn.fnArg \in {"none", "childCtx"}
        /\ (txn.fnArg = "childCtx" =>
              \E m \in {"READ ONLY", "READ WRITE"} :
                  "START TRANSACTION " \o m \in Sent(txn))
        /\ (txn.rt = "resolved" =>
              /\ txn.fnResult = "null" /\ txn.failure = "null"
              /\ "COMMIT" \in Sent(txn)
              /\ "ROLLBACK" \notin Sent(txn))
        /\ ((Settled(txn) /\ txn.failure # "null") =>
              /\ txn.rt = "rejected"
              /\ "ROLLBACK" \in Sent(txn)
              /\ txn.thrown = txn.failure)

\* C20: on a context whose API is a transaction, the callback gets the same
\* context and that transaction; runTransaction calls no beginTxn, commit
\* or rollback, sends no statement of its own and leaves the transaction
\* open and its connection leased; it settles as the callback does.
C20_NestedRunsCallbackOnly ==
    (txn.api = "txn") =>
        /\ txn.fnArg \in {"none", "ctx"}
        /\ txn.calls = <<>>
        /\ Sent(txn) \subseteq {"INSERT"}
        /\ ~txn.closed /\ ~txn.conClosed /\ txn.released = 0
        /\ (Settled(txn) =>
              /\ txn.fnArg = "ctx"
              /\ (txn.rt = "resolved") = (txn.fnResult = "null")
              /\ txn.thrown = txn.fnResult)

C20_Witness ==
    /\ txn.api = "txn"
    /\ txn.rt = "rejected"
    /\ txn.fnStmts = 1
    /\ txn.thrown = "Error: x"

\* A step in which the caller called op on the transaction.
Calls(ops) == txn'.ops = txn.ops + 1 /\ txn'.last.op \in ops

\* C21: a commit or rollback the transaction accepts closes the connection
\* of a transaction with keepOpen = false, whether the statement succeeds
\* or fails, and that connection is released once in all; a commit or
\* rollback of a transaction with keepOpen = true releases nothing.
C21_EndReleasesOnce ==
    [][/\ Calls({"commit", "rollback"}) /\ txn.keepOpen
           => txn'.released = txn.released /\ txn'.conClosed = txn.conClosed
       /\ Calls({"commit", "rollback"}) /\ ~txn.keepOpen
             /\ checkStatus(txn) = "null"
           => txn'.released = 1 /\ txn'.conClosed
       /\ ~txn.keepOpen => txn'.released <= 1]_vars

C21_Witness ==
    /\ ~txn.keepOpen
    /\ txn.last = [op |-> "commit", err |-> "failed: COMMIT", threw |-> TRUE]
    /\ txn.released = 1

\* C22: a call of query, queryRow, exec, commit or rollback made before
\* begin has succeeded (begin not called, or failed) or after a commit or
\* rollback was accepted is refused with the error of #checkStatus, sends
\* no statement and leaves the transaction and its connection as they were.
C22_RefusedOutsideLifetime ==
    [][Calls(Surface) /\ (~txn.ready \/ txn.closed)
          => /\ txn'.last.threw
             /\ txn'.last.err = IF ~txn.ready
                                THEN "Transaction is not yet ready"
                                ELSE "Transaction is already complete"
             /\ txn'.sql = txn.sql
             /\ txn'.released = txn.released
             /\ txn'.ready = txn.ready /\ txn'.closed = txn.closed]_vars

\* exec is refused after a commit.
C22_Witness ==
    /\ txn.closed
    /\ txn.sql[Len(txn.sql)] = "COMMIT"
    /\ txn.last = [op |-> "exec",
                   err |-> "Transaction is already complete",
                   threw |-> TRUE]

\* The statements a step sent on the connection of the transaction.
SentBy == SubSeq(txn'.sql, Len(txn.sql) + 1, Len(txn'.sql))

\* The statements begin is to issue for a permitted level, as the
\* specification tabulates them.
BeginStatements(level, readOnly) ==
    <<"SET TRANSACTION ISOLATION LEVEL " \o
         (CASE level = "default" -> "REPEATABLE READ"
            [] level = "repeatableRead" -> "REPEATABLE READ"
            [] level = "readCommitted" -> "READ COMMITTED"
            [] level = "readUncommitted" -> "READ UNCOMMITTED"
            [] level = "serializable" -> "SERIALIZABLE"),
      "START TRANSACTION " \o
         (IF readOnly THEN "READ ONLY" ELSE "READ WRITE")>>

\* C23: on an open connection begin with a permitted isolation level (none
\* given: default, READ WRITE) issues the SET TRANSACTION statement of the
\* level and then the START TRANSACTION statement of the mode, and nothing
\* else; the second follows as soon as the server has accepted the first.
\* With any other level begin fails and issues no statement.
C23_BeginStatements ==
    [][Calls({"begin", "beginTxn"}) /\ ~txn.conClosed
          => LET level == IF txn.opts.given THEN txn.opts.isolationLevel
                          ELSE "default"
                 readOnly == txn.opts.given /\ txn.opts.readOnly
                 two == BeginStatements(level, readOnly)
             IN IF level \in {"default", "repeatableRead", "readCommitted",
                              "readUncommitted", "serializable"}
                THEN /\ SentBy \in {two, <<two[1]>>}
                     /\ SentBy = <<two[1]>>
                           <=> txn'.last.err = "failed: " \o two[1]
                     /\ txn'.ready <=> txn'.last.err = "null"
                ELSE /\ SentBy = <<>>
                     /\ txn'.last.err = "Unsupported isolation level"
                     /\ ~txn'.ready]_vars

C23_Witness ==
    /\ txn.opts.given
    /\ txn.opts.isolationLevel = "readCommitted"
    /\ txn.opts.readOnly
    /\ txn.last = [op |-> "begin", err |-> "null", threw |-> FALSE]
    /\ txn.sql = <<"SET TRANSACTION ISOLATION LEVEL READ COMMITTED",
                   "START TRANSACTION READ ONLY">>

\* C24: when a step of begin fails (level not permitted, SET TRANSACTION or
\* START TRANSACTION rejected, connection closed) begin returns the error
\* without throwing and beginTxn throws that same error; the transaction
\* is not ready; the connection is released once by it when keepOpen is
\* false and not at all when keepOpen is true.
C24_BeginFailure ==
    [][Calls({"begin", "beginTxn"}) /\ txn'.last.err # "null"
          => /\ txn'.last.threw <=> txn'.last.op = "beginTxn"
             /\ txn'.last.err \in
                  {"Unsupported isolation level", "Connection is closed"}
                  \cup {"failed: " \o SentBy[i] : i \in 1..Len(SentBy)}
             /\ ~txn'.ready
             /\ txn'.released
                  = txn.released + (IF txn.keepOpen THEN 0 ELSE 1)
             /\ ~txn.keepOpen => txn'.released = 1]_vars

\* MySQLPool.beginTxn threw the rejection of START TRANSACTION.
C24_Witness ==
    /\ ~txn.keepOpen
    /\ txn.last = [op |-> "beginTxn",
                   err |-> "failed: START TRANSACTION READ WRITE",
                   threw |-> TRUE]
    /\ txn.released = 1
    /\ Len(txn.sql) = 2

\* C25: a call of getPoolConnection whose context is canceled before the
\* pool answers rejects with the canceled error, and the answer of the
\* pool is then dealt with: a connection is released at once and an error
\* is dropped, nothing being thrown; a call the pool answers first settles
\* with that answer and a later cancellation changes nothing.  No
\* connection is ever leased without a holder.
C25_CancelableAcquire ==
    \A r \in GetIds :
        /\ get[r].exception = "null"
        /\ get[r].timedOut
             => /\ get[r].promise = "rejected"
                /\ get[r].err
                     = "Context was canceled before a connection was available"
                /\ ~get[r].held
        /\ get[r].pc = "done" /\ ~get[r].timedOut
             => IF get[r].got # 0
                THEN get[r].promise = "resolved" /\ get[r].value = get[r].got
                ELSE get[r].promise = "rejected" /\ get[r].err = "pool error"
        /\ \A c \in Conns :
              pool.acquired[c] - pool.released[c]
                = Cardinality({x \in GetIds : get[x].held /\ get[x].value = c})

\* C26: the wire pool is ended by the first close() of a MySQLPool and by
\* no later one, and once close() was called every call of conn, query,
\* queryRow, exec and beginTxn throws the pool-closed error and leaves the
\* wire pool untouched: no connection is acquired.
C26_PoolCloseIdempotent ==
    [][/\ db'.ends = (IF db'.closes > 0 THEN 1 ELSE 0)
       /\ db'.ops = db.ops + 1 /\ db.closes > 0
           => /\ db'.last.op \in PoolOps
              /\ db'.last.err = "Pool is closed"
              /\ db'.last.took = 0
              /\ pool' = pool]_vars

C26_Witness ==
    /\ db.closes = 2
    /\ db.ends = 1
    /\ db.last = [op |-> "beginTxn", err |-> "Pool is closed", took |-> 0]

\* C27: the connection of a MySQLConn is released by its first close() and
\* by no later one, and once the MySQLConn is closed every call that
\* reaches it (beginTxn, and query, queryRow and exec through an open
\* transaction on it) fails with the closed error and sends nothing.
C27_ConnCloseOnce ==
    [][txn.api = "conn"
          => /\ txn'.released = (IF txn'.closes > 0 THEN 1 ELSE 0)
             /\ /\ txn.conClosed
                /\ \/ Calls({"beginTxn"})
                   \/ Calls(Surface) /\ checkStatus(txn) = "null"
                => /\ txn'.last.err = "Connection is closed"
                   /\ SentBy = <<>>]_vars

\* C28: a for await loop over a query receives the rows of the result set
\* one by one in the order the driver emitted them, all of them when it
\* runs to exhaustion, and the generator calls close() exactly once when
\* the loop ends, be it by exhaustion, by break or by a throw in the body
\* (or by a failure of the query), and never before.
C28_IterationClosesOnce ==
    /\ \A k \in 1..Len(iter.yielded) : iter.yielded[k] = makeRow(k)
    /\ iter.how = "exhausted" => Len(iter.yielded) = cfg.numRows
    /\ iter.pc \in {"idle", "next", "body"} => nClose = 0
    /\ iter.pc \in {"closing", "done"}
         => /\ nClose = 1
            /\ iter.how \in {"exhausted", "break", "throw", "error"}
    /\ iter.pc = "done" => closePc[1] \in {"resolved", "rejected"}

\* The loop body broke at the first of two rows and close() has run.
C28_Witness ==
    /\ iter.pc = "done"
    /\ iter.how = "break"
    /\ cfg.numRows = 2
    /\ iter.yielded = <<makeRow(1)>>
    /\ nClose = 1

\* C29: the loop of openRows and execStmt does not throw, whatever the
\* parameters, and the list it passes to the driver has the length of the
\* parameter list, with the value of a NamedParam where there was a
\* NamedParam and the parameter itself everywhere else.
C29_FlattenedInOrder ==
    flat.pc # "called"
      => /\ flat.err = "null"
         /\ flat.pc = "query"
         /\ Len(flat.inputs) = Len(flat.params)
         /\ \A k \in 1..Len(flat.params) :
               flat.inputs[k] = IF flat.params[k].t = "NamedParam"
                                THEN flat.params[k].value
                                ELSE flat.params[k]

\* C30: while nothing is canceled, closed or failed, the k-th next() that
\* resolved true made row k of the driver the current row, and the rows
\* the driver emitted after it wait in the buffer in the order of their
\* emission: emitted rows are consumed or buffered, once each.
C30_RowsInOrder ==
    Clean =>
        /\ ~q.misordered
        /\ ~q.invalidState
        /\ q.trues > 0 => q.row = makeRow(q.trues)
        /\ Len(q.buf) = wire.sent - q.trues
        /\ \A k \in 1..Len(q.buf) : q.buf[k] = q.trues + k

\* The last row of a result set that filled the buffer is the current
\* row, and a next() call is waiting for the driver.
C30_Witness ==
    /\ Clean
    /\ cfg.numRows = FlowRows
    /\ q.row = makeRow(FlowRows)
    /\ q.pauseCalls > 0
    /\ q.waitNext

\* C31: over any sequence of operations, close() included, the requests
\* made on the wire connection alternate, starting with a pause: at any
\* moment the pause requests made are as many as the resume requests, or
\* one more.
C31_PauseResumeAlternate == q.pauseCalls - q.resumeCalls \in {0, 1}

\* A step that requests a pause or a resume on the wire connection, and
\* whether a request was made before it.
Toggle == q'.pauseCalls + q'.resumeCalls > q.pauseCalls + q.resumeCalls
ToggledBefore == q.pauseCalls + q.resumeCalls > 0

\* C32: between any two consecutive requests on the wire connection, pause
\* or resume, next() returned a row at least highWater - resume times.
C32_ReadsBetweenToggles ==
    [][Clean /\ Toggle /\ ToggledBefore
          => q'.toggleAt - q.toggleAt >= highWater - resume]_vars

\* C32 (amended): while nothing is canceled, closed or failed, next()
\* returns a row at least highWater - resume times between a pause request
\* and the resume request that follows it, the read that requests the
\* resume included.
C32_ReadsWhilePaused ==
    [][Clean /\ q'.resumeCalls > q.resumeCalls
          => q'.toggleAt - q.toggleAt >= highWater - resume]_vars

\* The second resume has just been requested.
C32_Witness ==
    /\ Clean
    /\ q.resumeCalls = 2
    /\ q.pauseCalls = 2
    /\ q.toggleAt = q.trues
    /\ Len(q.buf) = resume

\* C33: whenever a next() call is pending the buffer is empty, and #pushRow
\* never finds a waiter together with buffered rows (its 'Invalid state'
\* throw), next() being called one call at a time.
C33_WaiterMeansEmptyBuffer ==
    /\ q.waitNext => Len(q.buf) = 0
    /\ ~q.invalidState

\* A next() call is pending after a row was read, and the driver has more
\* rows to emit.
C33_Witness ==
    /\ q.waitNext
    /\ q.trues >= 1
    /\ wire.drv = "rows"
    /\ wire.sent < cfg.numRows

\* C34: a close() call that has resolved finds the query done: a call made
\* before the terminal transition resolves with it or after it, not
\* before.
C34_CloseResolvesAfterDone ==
    \A i \in CloseIds : closePc[i] = "resolved" => q.done

\* A close() call that had to wait for its handle has resolved.
C34_Witness ==
    \E i \in CloseIds :
        /\ closePc[i] = "resolved"
        /\ q.hState[i] = "resolved"
        /\ q.done

\* C35: when the driver reports an error before the fields and no end
\* event follows it, the call of openRows or execStmt is eventually
\* rejected.
C35_OpenFailureRejects ==
    (wire.drv = "errored" /\ q.readyVal = "ER_FAIL")
        ~> (log.failed /\ pc \in {"failed", "settled"})

\* The statement issued on the in-flight connection has had neither its end
\* nor its error event.
InFlight == con # 0 /\ wire.drv \in {"fields", "rows"}

\* C36: a connection is not back in the pool, available to another lessee,
\* while the statement issued on it has not had its terminal event.
C36_NoReleaseInFlight ==
    InFlight => pool.free[con] = 0 /\ pool.released[con] = 0

\* The runs of #cancel(), of the cancel signal (0) and of the close() calls,
\* that have acted on the wire: released the connection (keepOpen=false) or
\* run KILL QUERY (keepOpen=true).
WireCancelsAll == {j \in CancelIds : cancelPc[j] = "done"}

\* C37: for one MySQLQuery the wire-level cancel action is performed at most
\* once: a cancel signal that has acted on the wire leaves no close() call
\* to act on it again, and the runs of #cancel() that acted number at most
\* one.
C37_WireCancelOnce ==
    /\ cancelPc[0] = "done" => \A i \in CloseIds : cancelPc[i] # "done"
    /\ Cardinality(WireCancelsAll) <= 1

\* The step in which the cancel signal reaches the #cancel() that the
\* constructor registered on the canceler.
SignalDelivered == cancelPc[0] = "none" /\ cancelPc'[0] # "none"

\* C38: a cancel signal delivered after the query is done leaves the wire
\* alone: the connection is not released, ended or destroyed, and no
\* cancelQuery is started that would run KILL QUERY with its thread id.
C38_LateSignalNoWireEffect ==
    [][q.done /\ SignalDelivered =>
          /\ pool' = pool
          /\ log'.kills = log.kills
          /\ cancelPc'[0] # "acquire"]_vars

\* C39: a query that is done has emitted 'complete' exactly once; #end emits
\* it in the step that sets #done, so this holds in every state, and no
\* query emits it twice.
C39_CompleteExactlyOnce ==
    /\ q.done => q.completes = 1
    /\ q.completes <= 1

\* C40: a close() call on a keepOpen=true stream settles once the driver
\* has delivered the end of the statement, also while every connection of
\* the pool stays leased.
C40_CloseSettlesWhenLeased ==
    \A i \in CloseIds :
        (closePc[i] = "awaitCancel" /\ wire.drv = "ended")
            ~> closePc[i] \in {"resolved", "rejected"}

=============================================================================
